---- MODULE Spec2Model ----
(***************************************************************************)
(* Model of the text-editor crate (crates/text-editor/src/lib.rs): the     *)
(* TextEditor struct, its edit operations (insert_text, backspace,         *)
(* delete), its viewport operations (scroll Up/Down/ToStart/ToEnd), the    *)
(* two line wrappers (layout_line, layout_line_rev) and layout_lines.      *)
(*                                                                         *)
(* The rope is a sequence of UTF-8 bytes.  A byte is one of                *)
(*    "a"  an ASCII character other than newline (one byte),               *)
(*    "n"  the newline character '\n' (one byte),                          *)
(*    "L"  the lead byte of a two-byte character,                          *)
(*    "C"  the continuation byte of a two-byte character.                  *)
(* The rope operations of the crop crate panic when a byte offset is out   *)
(* of bounds or is not a char boundary; a panic ends the program, which    *)
(* the model records in status.                                            *)
(*                                                                         *)
(* f32 quantities are integers here: glyph advances and the window width   *)
(* are whole pixels, and the vertical extent is kept in fifths of a pixel  *)
(* so that line_height = font_size * 1.2 is exact.                         *)
(***************************************************************************)
EXTENDS Integers, Sequences, FiniteSets, TLC

\* Largest rope, in bytes, that the model builds.
MaxLen == 4
\* Largest text, in bytes, passed to one insert_text call.
MaxText == 3
\* Largest line count passed to scroll(Up{lines}) / scroll(Down{lines}).
MaxLines == 3

\* Values of font_size, window_width and window_height the model draws from.
\* An editor wraps either by glyph metrics against the window width
\* (wrap_at = 0) or at a fixed column (wrap_at > 0, from WrapAts).
FontSizes == {0, 1}
Widths == {2, 3}
Heights == {1, 6}
WrapAts == {1, 2, 3}

VARIABLES content, cursor_position, text_start_idx,
          font_size, window_width, window_height, wrap_at,
          status, op, pre, atlas

vars == <<content, cursor_position, text_start_idx,
          font_size, window_width, window_height, wrap_at,
          status, op, pre, atlas>>

----------------------------------------------------------------------------
\* UTF-8 text

\* The characters of the model, each as its byte sequence.
Chars == {<<"a">>, <<"n">>, <<"L", "C">>}

RECURSIVE TextsUpTo(_)
\* Every valid UTF-8 text of at most n bytes.
TextsUpTo(n) ==
    IF n = 0 THEN {<<>>}
    ELSE LET S == TextsUpTo(n - 1)
         IN  S \cup {s \o c : s \in S, c \in {d \in Chars : Len(d) <= n}}

\* len_utf8 that takes every character for a single byte.
len_utf8_single_byte(b) == 1

\* char::len_utf8 of the character whose first byte is b.
len_utf8(b) == IF b = "L" THEN 2 ELSE 1

\* Rope::byte_len
byte_len(s) == Len(s)

\* Rope::is_char_boundary for an offset within bounds.
is_char_boundary(s, i) ==
    /\ i \in 0..Len(s)
    /\ (i = Len(s) \/ s[i + 1] # "C")

\* Number of characters (not bytes) of a text.
char_count(s) == Cardinality({i \in 1..Len(s) : s[i] # "C"})

\* Rope::insert at a valid offset.
rope_insert(s, i, t) == SubSeq(s, 1, i) \o t \o SubSeq(s, i + 1, Len(s))

\* Rope::delete of the byte range lo..hi (hi exclusive) at valid offsets.
rope_delete(s, lo, hi) == SubSeq(s, 1, lo) \o SubSeq(s, hi + 1, Len(s))

\* GlyphRasterizer::get_glyph(c, font_size).advance.0 for the character
\* whose first byte is b: a two-byte character is twice as wide as an
\* ASCII one, and advances scale with the font size.
get_glyph(b, fs) == IF b = "L" THEN 2 * fs ELSE fs

----------------------------------------------------------------------------
\* The editor as a value

Self ==
    [content |-> content, cursor_position |-> cursor_position,
     text_start_idx |-> text_start_idx, font_size |-> font_size,
     window_width |-> window_width, window_height |-> window_height,
     status |-> status]

\* TextEditor::new
new(text, ww, wh, fs) ==
    [content |-> text, cursor_position |-> 0, text_start_idx |-> 0,
     font_size |-> fs, window_width |-> ww, window_height |-> wh,
     status |-> "ok"]

Panic(e) == [e EXCEPT !.status = "panic"]

----------------------------------------------------------------------------
\* Line wrapping

RECURSIVE layout_line_scan(_, _, _, _)
\* The for loop of layout_line: byte_index is the offset of the next
\* character, x the advance accumulated so far.
layout_line_scan(e, start_index, byte_index, x) ==
    IF byte_index >= Len(e.content)
    THEN [panic |-> FALSE, newline |-> FALSE,
          lo |-> start_index, hi |-> Len(e.content)]
    ELSE LET c == e.content[byte_index + 1]
             advance == get_glyph(c, e.font_size)
         IN  IF c = "n"
             THEN [panic |-> FALSE, newline |-> TRUE,
                   lo |-> start_index, hi |-> byte_index]
             ELSE IF x + advance >= e.window_width
             THEN [panic |-> FALSE, newline |-> FALSE,
                   lo |-> start_index, hi |-> byte_index]
             ELSE layout_line_scan(e, start_index,
                                   byte_index + len_utf8(c), x + advance)

\* layout_line that breaks only once the line is wider than the window.
layout_line_wider(e, start_index) ==
    IF ~is_char_boundary(e.content, start_index)
    THEN [panic |-> TRUE, newline |-> FALSE,
          lo |-> start_index, hi |-> start_index]
    ELSE layout_line_scan([e EXCEPT !.window_width = @ + 1],
                          start_index, start_index, 0)

\* layout_line(start_index): the line is the byte range lo..hi (hi
\* exclusive); byte_slice(start_index..) panics on an offset that is out
\* of bounds or not a char boundary.
layout_line(e, start_index) ==
    IF ~is_char_boundary(e.content, start_index)
    THEN [panic |-> TRUE, newline |-> FALSE,
          lo |-> start_index, hi |-> start_index]
    ELSE layout_line_scan(e, start_index, start_index, 0)

RECURSIVE layout_line_rev_scan(_, _, _, _)
\* The for loop of layout_line_rev over the characters before start_index,
\* last one first: byte_index is the offset just after the next character.
layout_line_rev_scan(e, start_index, byte_index, x) ==
    IF byte_index = 0
    THEN [panic |-> FALSE, newline |-> FALSE,
          lo |-> start_index, hi |-> Len(e.content)]
    ELSE LET c == IF e.content[byte_index] = "C"
                  THEN e.content[byte_index - 1]
                  ELSE e.content[byte_index]
             advance == get_glyph(c, e.font_size)
         IN  IF c = "n" /\ byte_index = start_index
             THEN layout_line_rev_scan(e, start_index, byte_index - 1, x)
             ELSE IF c = "n"
             THEN [panic |-> FALSE, newline |-> TRUE,
                   lo |-> byte_index, hi |-> start_index]
             ELSE IF x - advance <= 0
             THEN [panic |-> FALSE, newline |-> FALSE,
                   lo |-> byte_index, hi |-> start_index]
             ELSE layout_line_rev_scan(e, start_index,
                                       byte_index - len_utf8(c), x - advance)

\* layout_line_rev(start_index); byte_slice(..start_index) panics on an
\* offset that is out of bounds or not a char boundary.
layout_line_rev(e, start_index) ==
    IF ~is_char_boundary(e.content, start_index)
    THEN [panic |-> TRUE, newline |-> FALSE,
          lo |-> start_index, hi |-> start_index]
    ELSE layout_line_rev_scan(e, start_index, start_index, e.window_width)

\* RopeSlice::byte_len of a returned line.
line_byte_len(line) == line.hi - line.lo

RECURSIVE layout_lines_loop(_, _, _, _)
\* The loop of layout_lines; y5 is five times y.  When line_height is
\* zero y never grows, so the loop never reaches its break.
layout_lines_loop(e, byte_index, y5, lines) ==
    LET line == layout_line(e, byte_index)
        next_index == byte_index + line_byte_len(line)
                        + (IF line.newline THEN 1 ELSE 0)
        next_y5 == y5 + 6 * e.font_size
        next_lines == Append(lines, line)
    IN  IF line.panic THEN [status |-> "panic", lines |-> lines]
        ELSE IF next_y5 >= 5 * e.window_height
        THEN [status |-> "ok", lines |-> next_lines]
        ELSE IF next_y5 = y5
        THEN [status |-> "hang", lines |-> next_lines]
        ELSE layout_lines_loop(e, next_index, next_y5, next_lines)

\* layout_lines that counts the first row before laying it out.
layout_lines_y_ahead(e) ==
    layout_lines_loop(e, e.text_start_idx, 6 * e.font_size, <<>>)

\* layout_lines: the lines to draw, from the viewport anchor.
layout_lines(e) == layout_lines_loop(e, e.text_start_idx, 0, <<>>)

----------------------------------------------------------------------------
\* Editing

\* TextEditor::delete
delete(e) ==
    LET len == byte_len(e.content)
    IN  IF len = 0 \/ e.cursor_position + 1 > len THEN e
        ELSE IF ~is_char_boundary(e.content, e.cursor_position)
                \/ ~is_char_boundary(e.content, e.cursor_position + 1)
        THEN Panic(e)
        ELSE [e EXCEPT !.content =
                 rope_delete(e.content, e.cursor_position,
                             e.cursor_position + 1)]

\* backspace that removes the byte and leaves the cursor where it was.
backspace_keeping_cursor(e) ==
    LET len == byte_len(e.content)
    IN  IF len = 0 \/ e.cursor_position = 0 THEN e
        ELSE IF ~is_char_boundary(e.content, e.cursor_position - 1)
                \/ ~is_char_boundary(e.content, e.cursor_position)
        THEN Panic(e)
        ELSE [e EXCEPT !.content =
                 rope_delete(e.content, e.cursor_position - 1,
                             e.cursor_position)]

\* TextEditor::backspace; the boundary search leaves curr_pos unused.
backspace(e) ==
    LET len == byte_len(e.content)
    IN  IF len = 0 \/ e.cursor_position = 0 THEN e
        ELSE IF ~is_char_boundary(e.content, e.cursor_position - 1)
                \/ ~is_char_boundary(e.content, e.cursor_position)
        THEN Panic(e)
        ELSE [e EXCEPT !.content =
                 rope_delete(e.content, e.cursor_position - 1,
                             e.cursor_position),
                       !.cursor_position = e.cursor_position - 1]

\* insert_text advancing the cursor by one per character of text.
bytes_to_advance_per_char(text) == char_count(text)

\* The byte count insert_text sums over text.chars().
bytes_to_advance(text) == Len(text)

\* TextEditor::insert_text
insert_text(e, text) ==
    IF ~is_char_boundary(e.content, e.cursor_position) THEN Panic(e)
    ELSE [e EXCEPT !.content = rope_insert(e.content, e.cursor_position, text),
                   !.cursor_position = e.cursor_position
                                         + bytes_to_advance(text)]

----------------------------------------------------------------------------
\* Scrolling

\* Subtraction that does not stop at zero.
unclamped_sub(a, b) == a - b

\* usize::saturating_sub
saturating_sub(a, b) == IF a >= b THEN a - b ELSE 0

RECURSIVE scroll_up_loop(_, _, _)
scroll_up_loop(e, byte_idx, lines) ==
    IF lines = 0 THEN [e EXCEPT !.text_start_idx = byte_idx]
    ELSE LET line == layout_line_rev(e, byte_idx)
         IN  IF line.panic THEN Panic(e)
             ELSE scroll_up_loop(e,
                      saturating_sub(byte_idx, line_byte_len(line)),
                      lines - 1)

\* TextEditor::scroll_up
scroll_up(e, lines) == scroll_up_loop(e, e.text_start_idx, lines)

RECURSIVE scroll_down_loop_no_newline(_, _, _)
\* The loop of scroll_down without the byte for a consumed newline.
scroll_down_loop_no_newline(e, byte_idx, lines) ==
    IF lines = 0 THEN [e EXCEPT !.text_start_idx = byte_idx]
    ELSE LET line == layout_line(e, byte_idx)
         IN  IF line.panic THEN Panic(e)
             ELSE scroll_down_loop_no_newline(e,
                      byte_idx + line_byte_len(line), lines - 1)

RECURSIVE scroll_down_loop(_, _, _)
scroll_down_loop(e, byte_idx, lines) ==
    IF lines = 0 THEN [e EXCEPT !.text_start_idx = byte_idx]
    ELSE LET line == layout_line(e, byte_idx)
         IN  IF line.panic THEN Panic(e)
             ELSE scroll_down_loop(e,
                      byte_idx + (IF line.newline THEN 1 ELSE 0)
                               + line_byte_len(line),
                      lines - 1)

\* scroll_down that takes the cursor along with the anchor.
scroll_down_with_cursor(e, lines) ==
    LET r == scroll_down_loop(e, e.text_start_idx, lines)
    IN  [r EXCEPT !.cursor_position = r.text_start_idx]

\* TextEditor::scroll_down
scroll_down(e, lines) == scroll_down_loop(e, e.text_start_idx, lines)

\* scroll_to_start that moves the anchor only.
scroll_to_start_anchor_only(e) == [e EXCEPT !.text_start_idx = 0]

\* TextEditor::scroll_to_start
scroll_to_start(e) ==
    [e EXCEPT !.text_start_idx = 0, !.cursor_position = 0]

\* TextEditor::scroll_to_end
scroll_to_end(e) ==
    LET bottom == saturating_sub(byte_len(e.content), 1)
    IN  scroll_up([e EXCEPT !.text_start_idx = bottom,
                            !.cursor_position = bottom], 1)

\* TextEditor::update_window_size
update_window_size(e, new_width, new_height) ==
    [e EXCEPT !.window_width = new_width, !.window_height = new_height]

\* update_font_size that also scrolls the view back to the top.
update_font_size_resetting_anchor(e, new_font_size) ==
    [e EXCEPT !.font_size = new_font_size, !.text_start_idx = 0]

\* TextEditor::update_font_size
update_font_size(e, new_font_size) == [e EXCEPT !.font_size = new_font_size]

----------------------------------------------------------------------------
\* The texture atlas of the ui crate.  Images are one-dimensional here:
\* an image is its width, the etagere allocator is a strip of AtlasSize
\* units that grants a request exactly when the units in use leave room
\* for it.  atlas.used is the allocator's state, atlas.cache the glyph
\* cache in least-recently-used order (glyph k has a bitmap k units wide),
\* atlas.evicted the glyphs the last allocate call evicted, in order.

\* Side of the atlas (1024 in AtlasPipeline::new).
AtlasSize == 12
\* Number of distinct glyphs the model rasterizes.
MaxGlyphs == 4

Glyphs == 1..MaxGlyphs
\* Widths of the images loaded from files: a small one, and one that
\* together with its padding is larger than the atlas.
ImageWidths == {1, AtlasSize - 1}

\* TextureAtlas::new
NewAtlas ==
    [used |-> 0, cache |-> <<>>, evicted |-> <<>>,
     status |-> "ok", call |-> "new"]

\* The padded size allocate asks the allocator for.
allocation_size(img) == img + 2

\* AtlasAllocator::allocate returns Some.
allocator_allocate(a, size) == a.used + size <= AtlasSize

RECURSIVE allocate_loop(_, _)
\* The loop of TextureAtlas::allocate.  When the allocator has no room
\* and pop_lru finds the cache empty, the iteration changes nothing and
\* the loop goes round forever.
allocate_loop(a, size) ==
    IF allocator_allocate(a, size)
    THEN [a EXCEPT !.used = @ + size]
    ELSE IF a.cache = <<>>
    THEN [a EXCEPT !.status = "hang"]
    ELSE allocate_loop(
             [a EXCEPT !.cache = Tail(@),
                       !.evicted = Append(@, Head(a.cache)),
                       !.used = @ - allocation_size(Head(a.cache))],
             size)

\* TextureAtlas::allocate
allocate(a, img) ==
    allocate_loop([a EXCEPT !.evicted = <<>>], allocation_size(img))

\* TextureAtlas::load_from_image
load_from_image(a, img) == allocate(a, img)

\* TextureAtlas::load_image_from_file
load_image_from_file(a, img) ==
    [load_from_image(a, img) EXCEPT !.call = "load_image_from_file"]

\* LruCache::get on a cached key: the key becomes the most recently used.
cache_get(cache, c) ==
    SelectSeq(cache, LAMBDA k : k # c) \o <<c>>

\* TextureAtlas::map_get_or_insert_glyph
map_get_or_insert_glyph(a, c) ==
    IF \E i \in 1..Len(a.cache) : a.cache[i] = c
    THEN [a EXCEPT !.cache = cache_get(@, c), !.evicted = <<>>,
                   !.call = "map_get_or_insert_glyph"]
    ELSE LET r == load_from_image(a, c)
         IN  IF r.status = "hang"
             THEN [r EXCEPT !.call = "map_get_or_insert_glyph"]
             ELSE [r EXCEPT !.cache = Append(@, c),
                            !.call = "map_get_or_insert_glyph"]

----------------------------------------------------------------------------
\* The state machine.  op names the last operation and its argument, pre
\* is the content, cursor and anchor that operation started from.

Snapshot ==
    [content |-> content, cursor_position |-> cursor_position,
     text_start_idx |-> text_start_idx]

Call(name, text, lines) == [name |-> name, text |-> text, lines |-> lines]

\* The editor becomes e after the operation c.
Becomes(e, c) ==
    /\ content' = e.content
    /\ cursor_position' = e.cursor_position
    /\ text_start_idx' = e.text_start_idx
    /\ font_size' = e.font_size
    /\ window_width' = e.window_width
    /\ window_height' = e.window_height
    /\ wrap_at' = wrap_at
    /\ atlas' = atlas
    /\ status' = e.status
    /\ op' = c
    /\ pre' = Snapshot

Init ==
    \E text \in TextsUpTo(MaxLen), ww \in Widths, wh \in Heights, fs \in FontSizes :
        LET e == new(text, ww, wh, fs)
        IN  /\ content = e.content
            /\ cursor_position = e.cursor_position
            /\ text_start_idx = e.text_start_idx
            /\ font_size = e.font_size
            /\ window_width = e.window_width
            /\ window_height = e.window_height
            /\ wrap_at = 0
            /\ atlas = NewAtlas
            /\ status = e.status
            /\ op = Call("new", <<>>, 0)
            /\ pre = [content |-> e.content,
                      cursor_position |-> e.cursor_position,
                      text_start_idx |-> e.text_start_idx]

InsertText ==
    /\ status = "ok"
    /\ \E text \in TextsUpTo(MaxText) :
          /\ Len(content) + Len(text) <= MaxLen
          /\ Becomes(insert_text(Self, text), Call("insert_text", text, 0))

Backspace ==
    /\ status = "ok"
    /\ Becomes(backspace(Self), Call("backspace", <<>>, 0))

Delete ==
    /\ status = "ok"
    /\ Becomes(delete(Self), Call("delete", <<>>, 0))

ScrollUp ==
    /\ status = "ok"
    /\ \E lines \in 0..MaxLines :
          Becomes(scroll_up(Self, lines), Call("scroll_up", <<>>, lines))

ScrollDown ==
    /\ status = "ok"
    /\ \E lines \in 0..MaxLines :
          Becomes(scroll_down(Self, lines), Call("scroll_down", <<>>, lines))

ScrollToStart ==
    /\ status = "ok"
    /\ Becomes(scroll_to_start(Self), Call("scroll_to_start", <<>>, 0))

ScrollToEnd ==
    /\ status = "ok"
    /\ Becomes(scroll_to_end(Self), Call("scroll_to_end", <<>>, 0))

UpdateWindowSize ==
    /\ status = "ok"
    /\ \E ww \in Widths, wh \in Heights :
          Becomes(update_window_size(Self, ww, wh),
                  Call("update_window_size", <<>>, 0))

UpdateFontSize ==
    /\ status = "ok"
    /\ \E fs \in FontSizes :
          Becomes(update_font_size(Self, fs), Call("update_font_size", <<>>, 0))

\* A frame is drawn: layout_lines runs on the current state.
LayoutLines ==
    /\ status = "ok"
    /\ Becomes([Self EXCEPT !.status = layout_lines(Self).status],
               Call("layout_lines", <<>>, 0))

Next ==
    \/ InsertText
    \/ Backspace
    \/ Delete
    \/ ScrollUp
    \/ ScrollDown
    \/ ScrollToStart
    \/ ScrollToEnd
    \/ UpdateWindowSize
    \/ UpdateFontSize
    \/ LayoutLines

Spec == Init /\ [][Next]_vars

----------------------------------------------------------------------------
\* Fixed-column wrapping (wrap_at > 0): the editor the tests build with
\* TextEditor::new(content, wrap_at) and lay out with
\* layout_lines_naive(max_lines).

RECURSIVE layout_line_naive_scan(_, _, _, _, _)
\* Scan forward from byte_index with consumed characters on the line: a
\* newline ends the line and is left out of it, the column limit ends it
\* once limit characters are consumed, and so does the end of the buffer.
layout_line_naive_scan(s, limit, start_index, byte_index, consumed) ==
    IF byte_index >= Len(s)
    THEN [panic |-> FALSE, newline |-> FALSE,
          lo |-> start_index, hi |-> Len(s)]
    ELSE LET c == s[byte_index + 1]
         IN  IF c = "n"
             THEN [panic |-> FALSE, newline |-> TRUE,
                   lo |-> start_index, hi |-> byte_index]
             ELSE IF consumed >= limit
             THEN [panic |-> FALSE, newline |-> FALSE,
                   lo |-> start_index, hi |-> byte_index]
             ELSE layout_line_naive_scan(s, limit, start_index,
                                         byte_index + len_utf8(c),
                                         consumed + 1)

\* The fixed-column wrapper letting one character too many on a line.
layout_line_naive_one_more(s, limit, start_index) ==
    layout_line_naive_scan(s, limit + 1, start_index, start_index, 0)

\* layout_line in fixed-column mode.
layout_line_naive(s, limit, start_index) ==
    layout_line_naive_scan(s, limit, start_index, start_index, 0)

RECURSIVE layout_lines_naive_loop(_, _, _, _, _)
\* Collect lines until max_lines is reached or the buffer end is reached.
layout_lines_naive_loop(s, limit, byte_index, max_lines, lines) ==
    IF Len(lines) >= max_lines \/ byte_index >= Len(s) THEN lines
    ELSE LET line == layout_line_naive(s, limit, byte_index)
         IN  layout_lines_naive_loop(s, limit,
                 line.hi + (IF line.newline THEN 1 ELSE 0),
                 max_lines, Append(lines, line))

\* layout_lines(max_lines) in fixed-column mode, from the anchor.
layout_lines_naive(s, limit, anchor, max_lines) ==
    layout_lines_naive_loop(s, limit, anchor, max_lines, <<>>)

\* TextEditor::new(content, wrap_at)
InitNaive ==
    /\ content \in TextsUpTo(MaxLen)
    /\ wrap_at \in WrapAts
    /\ atlas = NewAtlas
    /\ cursor_position = 0
    /\ text_start_idx = 0
    /\ font_size = 0
    /\ window_width = 0
    /\ window_height = 0
    /\ status = "ok"
    /\ op = Call("new", <<>>, 0)
    /\ pre = [content |-> content, cursor_position |-> 0,
              text_start_idx |-> 0]

\* A frame of at most max_lines rows is laid out in fixed-column mode.
LayoutLinesNaive ==
    /\ status = "ok"
    /\ wrap_at > 0
    /\ \E max_lines \in 0..(MaxLen + 1) :
          Becomes(Self, Call("layout_lines_naive", <<>>, max_lines))

NextNaive == LayoutLinesNaive

SpecNaive == InitNaive /\ [][NextNaive]_vars

\* The editor only scrolls: the buffer, the window and the font stay as
\* constructed.
NextScroll ==
    \/ ScrollUp
    \/ ScrollDown
    \/ ScrollToStart

SpecScroll == Init /\ [][NextScroll]_vars

\* The editor only scrolls down.
NextDown == ScrollDown

SpecDown == Init /\ [][NextDown]_vars

\* The texture atlas on its own: images are loaded from files and glyphs
\* are looked up, next to an editor that stays as constructed.
InitAtlas ==
    /\ content = <<>>
    /\ cursor_position = 0
    /\ text_start_idx = 0
    /\ font_size = 1
    /\ window_width = 2
    /\ window_height = 1
    /\ wrap_at = 0
    /\ status = "ok"
    /\ op = Call("new", <<>>, 0)
    /\ pre = [content |-> <<>>, cursor_position |-> 0, text_start_idx |-> 0]
    /\ atlas = NewAtlas

LoadImageFromFile ==
    /\ atlas.status = "ok"
    /\ \E img \in ImageWidths : atlas' = load_image_from_file(atlas, img)
    /\ UNCHANGED <<content, cursor_position, text_start_idx, font_size,
                   window_width, window_height, wrap_at, status, op, pre>>

MapGetOrInsertGlyph ==
    /\ atlas.status = "ok"
    /\ \E c \in Glyphs : atlas' = map_get_or_insert_glyph(atlas, c)
    /\ UNCHANGED <<content, cursor_position, text_start_idx, font_size,
                   window_width, window_height, wrap_at, status, op, pre>>

NextAtlas ==
    \/ LoadImageFromFile
    \/ MapGetOrInsertGlyph

SpecAtlas == InitAtlas /\ [][NextAtlas]_vars

----------------------------------------------------------------------------
\* Forward-wrapped lines of the whole buffer

RECURSIVE line_starts_from(_, _, _)
\* Start offsets of the lines that forward wrapping produces from offset
\* idx on, up to the end of the buffer or a line that consumes nothing.
line_starts_from(e, idx, acc) ==
    LET line == layout_line(e, idx)
        next == idx + line_byte_len(line) + (IF line.newline THEN 1 ELSE 0)
    IN  IF idx >= Len(e.content) \/ next = idx THEN acc \cup {idx}
        ELSE line_starts_from(e, next, acc \cup {idx})

\* Start offsets of all lines wrapped forward from offset 0; the end of
\* the buffer counts as the start of a last, empty line.
LineStarts(e) == line_starts_from(e, 0, {})

\* The starts of the lines that hold at least one byte of the buffer.
TextLineStarts(e) == {s \in LineStarts(e) : s < Len(e.content)}

LinesBelow(e, a) == Cardinality({s \in TextLineStarts(e) : s > a})
LinesAbove(e, a) == Cardinality({s \in TextLineStarts(e) : s < a})

\* The editor as it was when the last operation started (the window and
\* the font are those of now: only their setters change them).
Before ==
    [Self EXCEPT !.content = pre.content,
                 !.cursor_position = pre.cursor_position,
                 !.text_start_idx = pre.text_start_idx,
                 !.status = "ok"]

\* The offset is inside a multi-byte character of s.
InsideChar(s, i) == i \in 1..(Len(s) - 1) /\ s[i + 1] = "C"

\* Start offset of the character of s that ends at offset i > 0.
CharStartBefore(s, i) == IF s[i] = "C" THEN i - 2 ELSE i - 1

\* End offset of the character of s that starts at offset i < Len(s).
CharEndAfter(s, i) == IF s[i + 1] = "L" THEN i + 2 ELSE i + 1

----------------------------------------------------------------------------
\* Claims

\* C1: after any sequence of insert_text, backspace, delete and scroll
\* operations the viewport anchor lies within the buffer,
\* 0 <= text_start_idx <= byte length.
C1_AnchorWithinBuffer ==
    text_start_idx >= 0 /\ text_start_idx <= Len(content)

\* C2: after any sequence of edit and scroll operations text_start_idx
\* never points into the middle of a multi-byte character.
C2_AnchorOnCharBoundary == ~InsideChar(content, text_start_idx)

\* C3: after any sequence of insert_text, backspace, delete and
\* scroll(ToStart/ToEnd) operations cursor_position is a valid char
\* boundary of the buffer.
C3_CursorOnCharBoundary == is_char_boundary(content, cursor_position)

\* C4: scroll inverse.  When scroll(Down{k}) has run from an anchor A that
\* starts a forward-wrapped line, with k at most the number of wrapped
\* lines below A, scroll(Up{k}) brings text_start_idx back to A.
C4_ScrollInverse ==
    (/\ op.name = "scroll_down"
     /\ pre.text_start_idx \in TextLineStarts(Before)
     /\ op.lines <= LinesBelow(Before, pre.text_start_idx))
    => /\ status = "ok"
       /\ scroll_up(Self, op.lines).status = "ok"
       /\ scroll_up(Self, op.lines).text_start_idx = pre.text_start_idx

\* Anchors that scroll(Down{j}) reaches from anchor 0.
DownReachable(e) ==
    {scroll_down([e EXCEPT !.text_start_idx = 0], j).text_start_idx :
        j \in 0..(Len(e.content) + 1)}

\* C5: scroll(Up{n}) clamps at 0.  From an anchor reached by scrolling
\* down from 0, scroll(Up{n}) with n at least the number of wrapped lines
\* above the anchor sets text_start_idx to 0.
C5_ScrollUpClampsAtZero ==
    (/\ op.name = "scroll_up"
     /\ pre.text_start_idx \in DownReachable(Before)
     /\ op.lines >= LinesAbove(Before, pre.text_start_idx))
    => status = "ok" /\ text_start_idx = 0

\* C6: on a buffer that is not edited, after any sequence of
\* scroll(Up/Down/ToStart) operations from anchor 0, text_start_idx is the
\* start offset of a line produced by forward wrapping from offset 0.
C6_AnchorIsForwardLineStart == text_start_idx \in LineStarts(Self)

\* C7: insert_text(s) puts s into the buffer at the cursor, leaves the
\* bytes before and after it unchanged, and advances cursor_position by
\* the byte length of s.
C7_InsertAtCursor ==
    op.name = "insert_text" =>
        LET at == pre.cursor_position
            n == Len(op.text)
        IN  /\ status = "ok"
            /\ Len(content) = Len(pre.content) + n
            /\ \A i \in 1..at : content[i] = pre.content[i]
            /\ \A j \in 1..n : content[at + j] = op.text[j]
            /\ \A i \in (at + 1)..Len(pre.content) :
                   content[i + n] = pre.content[i]
            /\ cursor_position = at + n

\* C7 witness: a text of ASCII and multi-byte characters was inserted
\* into a non-empty buffer.
C7_Witness ==
    /\ op.name = "insert_text"
    /\ status = "ok"
    /\ \E i \in 1..Len(op.text) : op.text[i] = "a"
    /\ \E i \in 1..Len(op.text) : op.text[i] = "L"
    /\ Len(pre.content) > 0
    /\ char_count(op.text) < Len(op.text)
    /\ cursor_position = pre.cursor_position + Len(op.text)

\* C8: backspace() with cursor > 0 removes the one whole character that
\* ends at the cursor and moves cursor_position to the start of that
\* character; the rest of the buffer is unchanged.
C8_BackspaceRemovesChar ==
    (op.name = "backspace" /\ pre.cursor_position > 0) =>
        LET b == CharStartBefore(pre.content, pre.cursor_position)
        IN  /\ status = "ok"
            /\ content = SubSeq(pre.content, 1, b)
                           \o SubSeq(pre.content, pre.cursor_position + 1,
                                     Len(pre.content))
            /\ cursor_position = b

\* C9: delete() with the cursor before the end of the buffer removes the
\* one whole character that starts at the cursor and leaves
\* cursor_position and the rest of the buffer unchanged.
C9_DeleteRemovesChar ==
    (op.name = "delete" /\ pre.cursor_position < Len(pre.content)) =>
        LET d == CharEndAfter(pre.content, pre.cursor_position)
        IN  /\ status = "ok"
            /\ content = SubSeq(pre.content, 1, pre.cursor_position)
                           \o SubSeq(pre.content, d + 1, Len(pre.content))
            /\ cursor_position = pre.cursor_position

\* The last operation was called at the boundary where it has nothing to
\* do.
AtBoundary ==
    \/ op.name = "backspace" /\ pre.cursor_position = 0
    \/ op.name = "delete" /\ pre.cursor_position = Len(pre.content)
    \/ op.name = "scroll_up" /\ pre.text_start_idx = 0
    \/ op.name = "scroll_down" /\ pre.text_start_idx = Len(pre.content)

\* C10: boundary operations are silent no-ops: backspace() at cursor 0,
\* delete() at cursor = length, scroll(Up{n}) at anchor 0 and
\* scroll(Down{n}) at anchor = length leave the content, cursor_position
\* and text_start_idx unchanged and raise no error.
C10_BoundaryNoOp ==
    AtBoundary => status = "ok" /\ Snapshot = pre

\* C10 witness: scroll(Up{n}), n > 1, ran at anchor 0 of a non-empty
\* buffer.
C10_Witness ==
    /\ op.name = "scroll_up"
    /\ op.lines > 1
    /\ pre.text_start_idx = 0
    /\ Len(pre.content) > 1
    /\ status = "ok"
    /\ text_start_idx = 0

\* C11: after any sequence of insert_text, backspace, delete and scroll
\* operations, 0 <= cursor_position <= byte length.
C11_CursorWithinBuffer ==
    cursor_position >= 0 /\ cursor_position <= Len(content)

\* C11 witness: backspace() ran with the cursor at the end of the buffer
\* and left it at the new end.
C11_Witness ==
    /\ op.name = "backspace"
    /\ status = "ok"
    /\ pre.cursor_position = Len(pre.content)
    /\ Len(content) = Len(pre.content) - 1
    /\ Len(content) > 0
    /\ cursor_position = Len(content)

\* C12: for a non-empty buffer, after any sequence of scroll(Down{n})
\* operations text_start_idx stays strictly below the byte length.
C12_AnchorBelowLength ==
    Len(content) > 0 => text_start_idx < Len(content)

RECURSIVE JoinLines(_, _)
\* The bytes of the lines in order, with one newline byte after each line
\* that ended at a newline.
JoinLines(s, lines) ==
    IF lines = <<>> THEN <<>>
    ELSE LET line == Head(lines)
         IN  SubSeq(s, line.lo + 1, line.hi)
               \o (IF line.newline THEN <<"n">> ELSE <<>>)
               \o JoinLines(s, Tail(lines))

\* The lines layout_lines returns in the current state.
Lines == layout_lines(Self).lines

\* The last operation was layout_lines and it returned.
LaidOut == op.name = "layout_lines" /\ status = "ok"

\* C13: coverage round-trip.  With the anchor at 0 and a viewport of at
\* least as many rows as the buffer can have lines (one per byte, and one
\* more), the lines of layout_lines, joined with the newlines consumed
\* between them, are the buffer content.
C13_CoverageRoundTrip ==
    (LaidOut /\ text_start_idx = 0 /\ Len(Lines) >= Len(content) + 1)
    => JoinLines(content, Lines) = content

\* C14: boundary safety.  For every start offset that is a char boundary,
\* layout_line ends and layout_line_rev starts on a char boundary, and
\* neither is refused by the rope.
C14_BoundarySafety ==
    \A s \in 0..Len(content) :
        is_char_boundary(content, s) =>
            LET fwd == layout_line(Self, s)
                rev == layout_line_rev(Self, s)
            IN  /\ ~fwd.panic
                /\ ~rev.panic
                /\ is_char_boundary(content, fwd.hi)
                /\ is_char_boundary(content, rev.lo)

\* C14 witness: a frame was laid out in which the width limit ends a line
\* between two multi-byte characters.
C14_Witness ==
    /\ LaidOut
    /\ \E i \in 1..Len(Lines) :
          /\ ~Lines[i].newline
          /\ Lines[i].hi > Lines[i].lo
          /\ Lines[i].hi < Len(content)
          /\ content[Lines[i].hi] = "C"
          /\ content[Lines[i].hi + 1] = "L"

\* C15: layout_lines on an empty buffer returns zero lines.
C15_EmptyBufferNoLines ==
    (LaidOut /\ Len(content) = 0) => Len(Lines) = 0

RECURSIVE TextWidth(_, _)
\* Sum of the advances of the characters of a text.
TextWidth(s, fs) ==
    IF s = <<>> THEN 0
    ELSE (IF Head(s) = "C" THEN 0 ELSE get_glyph(Head(s), fs))
           + TextWidth(Tail(s), fs)

\* C16: for a non-empty buffer without a newline whose text fits within
\* the wrap limit, layout_lines from anchor 0 returns exactly one line,
\* the whole buffer.
C16_ShortBufferOneLine ==
    (/\ LaidOut
     /\ text_start_idx = 0
     /\ Len(content) > 0
     /\ \A i \in 1..Len(content) : content[i] # "n"
     /\ TextWidth(content, font_size) < window_width)
    => /\ Len(Lines) = 1
       /\ Lines[1].lo = 0
       /\ Lines[1].hi = Len(content)

\* The lines the last fixed-column layout returned.
NaiveLines ==
    layout_lines_naive(content, wrap_at, text_start_idx, op.lines)

\* The characters of a line of the buffer.
LineText(line) == SubSeq(content, line.lo + 1, line.hi)

RECURSIVE PrevLineStartScan(_, _, _, _)
\* Walk back from byte_index with x pixels left on the line: a newline
\* right at start_index is skipped, an earlier newline or the width limit
\* ends the walk, and so does the start of the buffer.
PrevLineStartScan(e, start_index, byte_index, x) ==
    IF byte_index = 0 THEN 0
    ELSE LET c == IF e.content[byte_index] = "C"
                  THEN e.content[byte_index - 1]
                  ELSE e.content[byte_index]
         IN  IF c = "n" /\ byte_index = start_index
             THEN PrevLineStartScan(e, start_index, byte_index - 1, x)
             ELSE IF c = "n" \/ x - get_glyph(c, e.font_size) <= 0
             THEN byte_index
             ELSE PrevLineStartScan(e, start_index, byte_index - len_utf8(c),
                                    x - get_glyph(c, e.font_size))

\* Start offset of the wrapped line that ends at start_index.
PrevLineStart(e, start_index) ==
    PrevLineStartScan(e, start_index, start_index, e.window_width)

\* C18: after scroll(ToEnd) has returned, cursor_position is the last byte offset of
\* the buffer (length - 1, or 0 when empty) and text_start_idx is the
\* start of the wrapped line that precedes that offset, so
\* text_start_idx <= cursor_position.
C18_ScrollToEnd ==
    (op.name = "scroll_to_end" /\ status = "ok") =>
        LET bottom == IF Len(content) = 0 THEN 0 ELSE Len(content) - 1
        IN  /\ cursor_position = bottom
            /\ text_start_idx = PrevLineStart(Self, bottom)
            /\ text_start_idx <= cursor_position

\* C19: scroll(ToStart) sets text_start_idx and cursor_position to 0 and
\* leaves the buffer content unchanged.
C19_ScrollToStart ==
    op.name = "scroll_to_start" =>
        /\ status = "ok"
        /\ text_start_idx = 0
        /\ cursor_position = 0
        /\ content = pre.content

\* C19 witness: scroll(ToStart) ran with the cursor and the anchor both
\* away from 0.
C19_Witness ==
    /\ op.name = "scroll_to_start"
    /\ pre.cursor_position > 0
    /\ pre.text_start_idx > 0
    /\ Len(content) > 0
    /\ text_start_idx = 0
    /\ cursor_position = 0

\* C20: frame conditions.  insert_text, backspace and delete never change
\* text_start_idx; scroll(Up{n}) and scroll(Down{n}) never change
\* cursor_position; no scroll operation changes the buffer content.
C20_FrameConditions ==
    /\ op.name \in {"insert_text", "backspace", "delete"}
          => text_start_idx = pre.text_start_idx
    /\ op.name \in {"scroll_up", "scroll_down"}
          => cursor_position = pre.cursor_position
    /\ op.name \in {"scroll_up", "scroll_down",
                     "scroll_to_start", "scroll_to_end"}
          => content = pre.content

\* C20 witness: scroll(Down{n}) moved the anchor past a cursor that is
\* not at 0.
C20_Witness ==
    /\ op.name = "scroll_down"
    /\ status = "ok"
    /\ pre.cursor_position > 0
    /\ cursor_position = pre.cursor_position
    /\ text_start_idx > cursor_position
    /\ text_start_idx # pre.text_start_idx

\* C21: update_font_size and update_window_size change only the stored
\* font size and window dimensions: the buffer content, cursor_position
\* and text_start_idx are what they were before the call.
C21_SettersFrame ==
    op.name \in {"update_window_size", "update_font_size"} =>
        /\ status = "ok"
        /\ content = pre.content
        /\ cursor_position = pre.cursor_position
        /\ text_start_idx = pre.text_start_idx

\* C21 witness: update_font_size ran on a non-empty buffer with the cursor
\* and the anchor both away from 0.
C21_Witness ==
    /\ op.name = "update_font_size"
    /\ Len(pre.content) > 0
    /\ pre.cursor_position > 0
    /\ pre.text_start_idx > 0
    /\ text_start_idx = pre.text_start_idx

\* C22: layout_line_rev(start) returns the line that ends at start: the
\* range's end offset is start, and its start offset is the byte after
\* the nearest newline strictly before start (a newline directly before
\* start is skipped), or the offset where the width limit is reached, or
\* 0 when the scan reaches the start of the buffer; scroll(Up{1}) moves
\* the anchor to exactly that start offset.
C22_ReverseLine ==
    (op.name = "scroll_up" /\ op.lines = 1 /\ status = "ok"
        /\ pre.text_start_idx > 0) =>
        LET start == pre.text_start_idx
            line == layout_line_rev(Before, start)
        IN  /\ line.hi = start
            /\ line.lo = PrevLineStart(Before, start)
            /\ text_start_idx = line.lo

\* The offsets at or after start where a forward line may end: the end
\* of the buffer, a newline, or a character whose advance would bring
\* the width of the line to the window width.
StopOffsets(e, start) ==
    {x \in start..Len(e.content) :
        /\ is_char_boundary(e.content, x)
        /\ \/ x = Len(e.content)
           \/ e.content[x + 1] = "n"
           \/ TextWidth(SubSeq(e.content, start + 1, x), e.font_size)
                 + get_glyph(e.content[x + 1], e.font_size)
                 >= e.window_width}

FirstStop(e, start) ==
    CHOOSE x \in StopOffsets(e, start) :
        \A y \in StopOffsets(e, start) : x <= y

\* C23: layout_line(start) returns the range [start, e) where e is the
\* smallest offset >= start such that the character at e is a newline
\* (ends_with_newline true, newline excluded), or the summed advances of
\* [start, e) plus the advance of the character at e is >= window_width
\* (ends_with_newline false, that character not consumed), or e is the
\* buffer length (ends_with_newline false).
C23_ForwardLine ==
    \A start \in 0..Len(content) :
        is_char_boundary(content, start) =>
            LET line == layout_line(Self, start)
                e == FirstStop(Self, start)
            IN  /\ ~line.panic
                /\ line.lo = start
                /\ line.hi = e
                /\ line.newline = (e < Len(content) /\ content[e + 1] = "n")

\* C23 witness: a frame was laid out with a line that the width limit
\* ended after at least one character, a line that a newline ended, and a
\* line that the end of the buffer ended.
C23_Witness ==
    /\ LaidOut
    /\ \E i \in 1..Len(Lines) :
          /\ ~Lines[i].newline
          /\ Lines[i].hi < Len(content)
          /\ Lines[i].hi > Lines[i].lo
    /\ \E i \in 1..Len(Lines) : Lines[i].newline
    /\ \E i \in 1..Len(Lines) :
          Lines[i].hi = Len(content) /\ Lines[i].hi > Lines[i].lo

\* Every character of the buffer has the same advance.
UniformAdvance(e) ==
    \A i, j \in 1..Len(e.content) :
        (e.content[i] \notin {"n", "C"} /\ e.content[j] \notin {"n", "C"})
            => get_glyph(e.content[i], e.font_size)
                 = get_glyph(e.content[j], e.font_size)

\* C24: forward and reverse wrapping are mutually inverse at a single
\* step under a uniform per-character width: for an offset s with at
\* least one character before it, if p is the line start computed by
\* layout_line_rev(s), then layout_line(p) ends exactly at s, or at s - 1
\* with ends_with_newline true when a newline directly precedes s.
C24_ForwardInvertsReverse ==
    (op.name = "scroll_up" /\ op.lines = 1 /\ status = "ok"
        /\ pre.text_start_idx > 0 /\ UniformAdvance(Before)) =>
        LET s == pre.text_start_idx
            p == layout_line_rev(Before, s).lo
            line == layout_line(Before, p)
        IN  \/ line.hi = s
            \/ /\ content[s] = "n"
               /\ line.hi = s - 1
               /\ line.newline

\* C25: progress of the layout loop.  Every iteration of layout_lines
\* either advances the byte index by at least one byte or is the final
\* iteration: no two lines of a returned layout start at the same offset,
\* at the end of the buffer and on a glyph as wide as the window included.
C25_LayoutProgress ==
    LaidOut =>
        \A i \in 1..(Len(Lines) - 1) : Lines[i + 1].lo > Lines[i].lo

\* C26: layout_lines and scroll(Up{n}), scroll(Down{n}) and scroll(ToEnd)
\* terminate for every buffer content, anchor, window size and font size,
\* a font size of zero included: no call is left running forever.
C26_Terminates == status # "hang"

RECURSIVE ConsumedBytes(_, _)
\* The bytes the first n of the lines consumed: their byte lengths plus
\* one byte for each of them that ended at a newline.
ConsumedBytes(lines, n) ==
    IF n = 0 THEN 0
    ELSE ConsumedBytes(lines, n - 1) + line_byte_len(lines[n])
           + (IF lines[n].newline THEN 1 ELSE 0)

\* The layout of the frame as it was when the last operation started.
LinesBefore == layout_lines(Before)

\* C27: scrolling down agrees with rendering.  Whenever layout_lines from
\* anchor A returns at least n + 1 lines, the anchor after scroll(Down{n})
\* is the start offset of the (n+1)-th of those lines: A plus the byte
\* lengths of the first n lines plus one byte for each of them that ended
\* at a newline.
C27_ScrollDownAgreesWithLayout ==
    (op.name = "scroll_down" /\ LinesBefore.status = "ok"
        /\ Len(LinesBefore.lines) >= op.lines + 1) =>
        /\ status = "ok"
        /\ text_start_idx = LinesBefore.lines[op.lines + 1].lo
        /\ text_start_idx
             = pre.text_start_idx + ConsumedBytes(LinesBefore.lines, op.lines)

\* C27 witness: scroll(Down{n}) with n >= 2 ran from an anchor whose
\* frame has more than n lines, passed a line ended by a newline and a
\* line ended by the width limit, and stopped inside the buffer.
C27_Witness ==
    /\ op.name = "scroll_down"
    /\ op.lines >= 2
    /\ status = "ok"
    /\ LinesBefore.status = "ok"
    /\ Len(LinesBefore.lines) >= op.lines + 1
    /\ \E i, j \in 1..op.lines :
          /\ LinesBefore.lines[i].newline
          /\ ~LinesBefore.lines[j].newline
    /\ text_start_idx = LinesBefore.lines[op.lines + 1].lo
    /\ text_start_idx < Len(content)

\* The smallest k >= 1 with k * line_height >= window_height, where
\* line_height is 1.2 * font_size (both sides times five).
RowCount(e) ==
    CHOOSE k \in 1..(5 * e.window_height + 1) :
        /\ k * 6 * e.font_size >= 5 * e.window_height
        /\ \A j \in 1..(k - 1) : j * 6 * e.font_size < 5 * e.window_height

\* C28: the number of lines layout_lines returns depends only on
\* window_height and font_size, being the smallest k >= 1 with
\* k * line_height >= window_height, and not on the buffer content or
\* the anchor; lines that start at the end of the buffer are returned as
\* empty lines.
C28_LineCount ==
    LaidOut =>
        /\ Len(Lines) = RowCount(Self)
        /\ \A i \in 1..Len(Lines) :
              Lines[i].lo >= Len(content) =>
                  /\ Lines[i].hi = Lines[i].lo
                  /\ ~Lines[i].newline

\* C28 witness: a frame of several rows was laid out from an anchor
\* inside a non-empty buffer; its first line has text and its last rows
\* start at the end of the buffer.
C28_Witness ==
    /\ LaidOut
    /\ text_start_idx > 0
    /\ Len(Lines) > 2
    /\ Lines[1].hi > Lines[1].lo
    /\ Lines[Len(Lines) - 1].lo = Len(content)
    /\ Lines[Len(Lines)].lo = Len(content)

\* C29: insert/backspace round trip.  insert_text(c) for a single
\* character c, ASCII or multi-byte, followed immediately by backspace()
\* restores the buffer content and cursor_position to their values
\* before the insert.
C29_InsertBackspaceRoundTrip ==
    (op.name = "insert_text" /\ status = "ok" /\ char_count(op.text) = 1) =>
        LET r == backspace(Self)
        IN  /\ r.status = "ok"
            /\ r.content = pre.content
            /\ r.cursor_position = pre.cursor_position

\* C30: TextureAtlas::allocate always returns an allocation: when the
\* allocator has no room it evicts cached glyphs in least-recently-used
\* order until the allocation succeeds, and its loop terminates for every
\* image, also when the glyph cache is empty, when space is held by
\* non-glyph images and when the image is larger than the atlas.
C30_AllocateReturns == atlas.status # "hang"

====
